---- MODULE Spec2Model ----
(***************************************************************************)
(* Transfer-learning notebook (ResNet-50, cat/fish): the freezing loop,    *)
(* the replacement of the classifier, the generic train() loop, the        *)
(* learning-rate finder find_lr() and the save / load of the state_dict;   *)
(* its custom transforms (Noise in a Compose pipeline); and the validation *)
(* split of the CIFAR-10 notebook.                                         *)
(*                                                                         *)
(* Numbers.  Losses are exact rationals <<num, den>> in lowest terms, a    *)
(* learning rate is an integer number of units, and a sweep is called with *)
(* a final_value whose (n-1)-th root over init_value is an integer, so     *)
(* that the arithmetic of the code is exact in the model.  Floating-point  *)
(* rounding is outside the model.                                          *)
(* The framework (autograd, Adam, DataLoader, CrossEntropyLoss) is         *)
(* modelled by its contract: per-sample losses and gradients are free      *)
(* choices, the reduction of a batch is the mean, backward() accumulates   *)
(* into .grad of the parameters that require a gradient, step() moves      *)
(* only the parameters that have a gradient.                               *)
(***************************************************************************)
EXTENDS Integers, Sequences, FiniteSets, TLC

\* ------------------------------------------------------------------ bounds
MaxEpochs == 2          \* largest epochs argument of train()
MaxTrain == 3           \* largest training set of the small configurations
MaxVal == 1             \* largest validation set
MaxBatchSize == 2       \* largest batch_size of the small configurations
MaxBatches == 22        \* longest loader swept by find_lr (batch_size 1)
MaxCalls == 3           \* notebook cells run after the optimizer is created
MaxRoot == 3            \* largest integer update_step looked for
MaxData == 6            \* largest len(train_data) of the CIFAR-10 split
MaxPixels == 3          \* largest number of elements of an image / tensor

\* Python's None is the empty tuple and a present value x is <<x>>.
None == <<>>
Some(x) == <<x>>
NoError == "none"

SampleLossVals == {1, 5}   \* the per-sample losses a forward pass can give

\* ------------------------------------------------------- exact arithmetic
RECURSIVE GCD(_, _)
GCD(a, b) == IF b = 0 THEN a ELSE GCD(b, a % b)

Norm(n, d) == LET g == GCD(n, d) IN <<n \div g, d \div g>>

RAdd(a, b) == Norm(a[1] * b[2] + b[1] * a[2], a[2] * b[2])
RMulInt(a, k) == Norm(a[1] * k, a[2])
RDivInt(a, k) == Norm(a[1], a[2] * k)
RLt(a, b) == a[1] * b[2] < b[1] * a[2]
Zero == <<0, 1>>

RECURSIVE Pow(_, _)
Pow(b, e) == IF e = 0 THEN 1 ELSE b * Pow(b, e - 1)

RECURSIVE SumOver(_, _)
SumOver(f, S) ==
    IF S = {} THEN 0
    ELSE LET x == CHOOSE y \in S : TRUE IN f[x] + SumOver(f, S \ {x})

\* ------------------------------------------------- the pretrained network
\* A cut of torchvision's ResNet-50: the stem, one bottleneck with its
\* downsample branch (a Sequential of a convolution and a BatchNorm, hence
\* named by position) and the 1000-way classifier.
PretrainedNames ==
    {"conv1.weight", "bn1.weight", "layer1.0.bn1.bias",
     "layer1.0.downsample.0.weight", "layer1.0.downsample.1.weight",
     "fc.weight"}

\* The parameters of nn.Sequential(Linear, ReLU, Dropout, Linear).
NewFcNames == {"fc.0.weight", "fc.3.bias"}

AllNames == PretrainedNames \cup NewFcNames

NameChars(n) ==
    CASE n = "conv1.weight" ->
           <<"c","o","n","v","1",".","w","e","i","g","h","t">>
      [] n = "bn1.weight" ->
           <<"b","n","1",".","w","e","i","g","h","t">>
      [] n = "layer1.0.bn1.bias" ->
           <<"l","a","y","e","r","1",".","0",".","b","n","1",".",
             "b","i","a","s">>
      [] n = "layer1.0.downsample.0.weight" ->
           <<"l","a","y","e","r","1",".","0",".","d","o","w","n","s","a",
             "m","p","l","e",".","0",".","w","e","i","g","h","t">>
      [] n = "layer1.0.downsample.1.weight" ->
           <<"l","a","y","e","r","1",".","0",".","d","o","w","n","s","a",
             "m","p","l","e",".","1",".","w","e","i","g","h","t">>
      [] n = "fc.weight" ->
           <<"f","c",".","w","e","i","g","h","t">>
      [] n = "fc.0.weight" ->
           <<"f","c",".","0",".","w","e","i","g","h","t">>
      [] n = "fc.3.bias" ->
           <<"f","c",".","3",".","b","i","a","s">>

\* The type of the layer that owns the parameter.
LayerKind(n) ==
    CASE n \in {"bn1.weight", "layer1.0.bn1.bias",
                "layer1.0.downsample.1.weight"} -> "BatchNorm2d"
      [] n \in {"conv1.weight", "layer1.0.downsample.0.weight"} -> "Conv2d"
      [] OTHER -> "Linear"

\* Python's `sub in s` on strings.
Contains(s, sub) ==
    \E i \in 1..(Len(s) - Len(sub) + 1) :
        SubSeq(s, i, i + Len(sub) - 1) = sub

PretrainedValue(n) == 10
FreshValue(n) == 0

\* ------------------------------------------------------------------ state
VARIABLES
    cell,            \* next set-up cell of the notebook, or "ready"
    calls,           \* the cells run since the optimizer was created
    params,          \* parameter name -> value
    requires_grad,   \* parameter name -> BOOLEAN
    grad,            \* parameter name -> .grad (None or a number)
    training,        \* model.training
    optimizer,       \* [params: the names it was built over, lr]
    saved_file,      \* the state_dict on disk, or None
    train_n, val_n, batch_size,   \* the datasets and the loaders
    shuffle,         \* whether the loaders shuffle
    grad_vals,       \* the gradients backward() can derive on this data
    max_epochs,      \* the largest epochs argument this session passes
    budget,          \* how many cells this session runs after the set-up
    indices,         \* CIFAR-10: list(range(training_size)), shuffled
    index_split,     \* CIFAR-10: where the list is cut
    validation_indices, training_indices,
    training_sample, validation_sample,   \* the SubsetRandomSamplers
    loader,          \* the loader being iterated, or None
    todo,            \* transforms the running Compose call still applies
    img,             \* the value passed from transform to transform
    tensor,          \* argument of the last Noise.__call__, or None
    noise,           \* local of the last Noise.__call__, or None
    pc,              \* position inside train() / find_lr(), or "idle"
    error,           \* the exception that ended the call, or None
    it,              \* samples the running loader iterator still holds
    inputs,          \* the samples of the current batch
    sample_loss,     \* per-sample loss of the current batch
    loss,            \* the reduced (mean) loss of the batch, or None
    dropout_active,  \* whether the last forward pass dropped activations
    epochs, epoch, training_loss, valid_loss, num_correct, num_examples,
    printed,         \* the metrics line train() printed last, or None
    init_value, final_value, number_in_epoch, update_step, lr, best_loss,
    batch_num, losses, log_lrs,
    returned,        \* what the last find_lr returned, or None
    h                \* history: what the checks need to remember

modelVars == <<params, requires_grad, grad, training, optimizer, saved_file>>
configVars == <<train_n, val_n, batch_size, shuffle, grad_vals, max_epochs,
                budget>>
splitVars == <<indices, index_split, validation_indices, training_indices,
               training_sample, validation_sample, loader>>
noiseVars == <<todo, img, tensor, noise>>
dataVars == <<configVars, splitVars, noiseVars>>
batchVars == <<it, inputs, sample_loss, loss, dropout_active>>
trainVars == <<epochs, epoch, training_loss, valid_loss, num_correct,
               num_examples, printed>>
flVars == <<init_value, final_value, number_in_epoch, update_step, lr,
            best_loss, batch_num, losses, log_lrs, returned>>
vars == <<cell, calls, modelVars, dataVars, pc, error, batchVars, trainVars,
          flVars, h>>

\* History record, written by the actions and read only by the properties.
H0 ==
    [ops |-> <<>>,            \* operations done on the current batch
     batch_grad |-> None,     \* the gradient backward() derived from it
     seen |-> {},             \* samples delivered in this epoch
     twice |-> FALSE,         \* a sample was delivered a second time
     sizes |-> 0,             \* sum of the batch sizes of this epoch
     batches |-> 0,           \* batches delivered in this epoch / sweep
     sweep_steps |-> 0,       \* optimizer steps of the last find_lr
     epoch_sum |-> 0,         \* sum of their per-sample losses
     epoch_steps |-> 0,       \* optimizer steps of this epoch / sweep
     epoch_backs |-> 0,       \* backward passes of this epoch / sweep
     at_save |-> None,        \* the parameters when the file was written
     entry_lr |-> None,       \* optimizer lr when find_lr was entered
     return_lr |-> None,      \* optimizer lr when find_lr returned
     early |-> FALSE,         \* the last find_lr crashed out
     exit_loss |-> None,      \* the loss that made it crash out
     step_lrs |-> <<>>,       \* optimizer lr at each step of the sweep
     moved |-> {},            \* parameters an optimizer step has changed
     val_sum |-> 0,           \* sum of the validation losses of this epoch
     val_correct |-> 0,       \* correct predictions counted in this epoch
     val_examples |-> 0,      \* validation samples counted in this epoch
     delivered |-> {}]        \* indices the iterated loader has delivered

\* ------------------------------------------------------------- the loader
\* len(DataLoader(dataset, batch_size)): drop_last is False.
LoaderLen(n, b) == (n + b - 1) \div b

Samples(n) == 1..n

\* The smallest b elements of S (all of S when it has fewer).
RECURSIVE FirstOf(_, _)
FirstOf(S, b) ==
    IF b = 0 \/ S = {} THEN {}
    ELSE LET m == CHOOSE x \in S : \A y \in S : x <= y
         IN {m} \cup FirstOf(S \ {m}, b - 1)

\* The batches the loader can deliver next from the samples it still holds:
\* the next batch_size in order, or any batch_size of them when it shuffles;
\* the last batch takes what is left.
NextBatches(rest, b, shuf) ==
    IF Cardinality(rest) <= b THEN {rest}
    ELSE IF shuf THEN {B \in SUBSET rest : Cardinality(B) = b}
    ELSE {FirstOf(rest, b)}

\* ------------------------------------------------------------------ Init
\* The notebook session: small shuffled loaders, one-epoch train() calls.
SmallConfigs ==
    [train_n : 2..MaxTrain, val_n : {MaxVal}, batch_size : 1..MaxBatchSize,
     shuffle : {FALSE}, grads : {{1}}, max_epochs : {1},
     budget : {MaxCalls}]

InitAt(configs, first) ==
    /\ cell = first
    /\ calls = <<>>
    /\ params = [n \in PretrainedNames |-> PretrainedValue(n)]
    /\ requires_grad = [n \in PretrainedNames |-> TRUE]
    /\ grad = [n \in PretrainedNames |-> None]
    /\ training = TRUE
    /\ optimizer = [params |-> {}, lr |-> 0]
    /\ saved_file = None
    /\ \E c \in configs :
         /\ train_n = c.train_n
         /\ val_n = c.val_n
         /\ batch_size = c.batch_size
         /\ shuffle = c.shuffle
         /\ grad_vals = c.grads
         /\ max_epochs = c.max_epochs
         /\ budget = c.budget
    /\ pc = "idle"
    /\ error = NoError
    /\ it = {}
    /\ inputs = {}
    /\ sample_loss = [x \in {} |-> 0]
    /\ loss = None
    /\ dropout_active = FALSE
    /\ epochs = 0
    /\ epoch = 0
    /\ training_loss = Zero
    /\ valid_loss = Zero
    /\ num_correct = 0
    /\ num_examples = 0
    /\ printed = None
    /\ init_value = 0
    /\ final_value = 0
    /\ number_in_epoch = 0
    /\ update_step = 0
    /\ lr = 0
    /\ best_loss = Zero
    /\ batch_num = 0
    /\ losses = <<>>
    /\ log_lrs = <<>>
    /\ returned = None
    /\ h = H0
    /\ indices = <<>>
    /\ index_split = 0
    /\ validation_indices = <<>>
    /\ training_indices = <<>>
    /\ training_sample = None
    /\ validation_sample = None
    /\ loader = None
    /\ todo = <<>>
    /\ img = None
    /\ tensor = None
    /\ noise = None

\* The transfer-learning notebook starts at its freezing loop.
InitWith(configs) == InitAt(configs, "freeze")

Init == InitWith(SmallConfigs)

\* ------------------------------------------------------ notebook set-up
\* for name, param in named_parameters(): if "bn" not in name: freeze.
FreezeFlag(n, old) ==
    IF ~Contains(NameChars(n), <<"b", "n">>) THEN FALSE ELSE old

FreezeLoop ==
    /\ cell = "freeze"
    /\ requires_grad' = [n \in DOMAIN requires_grad |->
                            FreezeFlag(n, requires_grad[n])]
    /\ cell' = "replace_fc"
    /\ UNCHANGED <<calls, params, grad, training, optimizer, saved_file,
                   dataVars, pc, error, batchVars, trainVars, flVars, h>>

\* transfer_model.fc = nn.Sequential(Linear, ReLU, Dropout, Linear): the old
\* fc parameters leave the model, the new ones are fresh and trainable.
KeptNames(names) == {n \in names : ~(n \in {"fc.weight"})}

ReplaceFc ==
    /\ cell = "replace_fc"
    /\ LET keep == KeptNames(DOMAIN params)
           now == keep \cup NewFcNames
       IN /\ params' = [n \in now |->
                          IF n \in keep THEN params[n] ELSE FreshValue(n)]
          /\ requires_grad' = [n \in now |->
                          IF n \in keep THEN requires_grad[n] ELSE TRUE]
          /\ grad' = [n \in now |-> IF n \in keep THEN grad[n] ELSE None]
    /\ cell' = "optimizer"
    /\ UNCHANGED <<calls, training, optimizer, saved_file, dataVars, pc,
                   error, batchVars, trainVars, flVars, h>>

\* optimizer = optim.Adam(transfer_model.parameters(), lr=0.001); one unit
\* of learning rate is 0.001.
AdamLr == 1

MakeOptimizer ==
    /\ cell = "optimizer"
    /\ optimizer' = [params |-> DOMAIN params, lr |-> AdamLr]
    /\ cell' = "ready"
    /\ UNCHANGED <<calls, params, requires_grad, grad, training, saved_file,
                   dataVars, pc, error, batchVars, trainVars, flVars, h>>

\* --------------------------------------------- the framework's contract
\* zero_grad() left out: the gradients stay as the last batch left them.
ZeroGradKept(gr, opt) == gr

\* optimizer.zero_grad(): the gradients the optimizer's parameters hold are
\* set to zero; a parameter that never had one keeps None.
ZeroGrad(gr, opt) ==
    [n \in DOMAIN gr |->
        IF n \in opt.params /\ gr[n] # None THEN Some(0) ELSE gr[n]]

\* model(inputs): a Dropout layer drops activations iff the module is in
\* training mode.
DropoutApplies(mode) == mode

\* loss_fn(outputs, targets) with the default reduction: the batch mean.
MeanLoss(sl, ins) == Norm(SumOver(sl, ins), Cardinality(ins))

\* backward() that ignores requires_grad.
BackwardAll(gr, rg, g) ==
    [n \in DOMAIN gr |->
        IF gr[n] = None THEN Some(g) ELSE Some(gr[n][1] + g)]

\* loss.backward(): the gradient g of this batch is added to .grad of every
\* parameter that requires one.
Backward(gr, rg, g) ==
    [n \in DOMAIN gr |->
        IF rg[n]
        THEN IF gr[n] = None THEN Some(g) ELSE Some(gr[n][1] + g)
        ELSE gr[n]]

\* A step that moves nothing.
StepSkipped(p, gr, opt) == p

\* optimizer.step(): a parameter without a gradient is skipped.
StepParams(p, gr, opt) ==
    [n \in DOMAIN p |->
        IF n \in opt.params /\ gr[n] # None
        THEN p[n] - opt.lr * gr[n][1]
        ELSE p[n]]

Moved(p, q) == {n \in DOMAIN p : p[n] # q[n]}

\* A division that gives a value whatever the divisor.
DivisionNeverFails(d) == FALSE

\* x / d raises ZeroDivisionError when d is 0.
DivisionFails(d) == d = 0

\* '{:.2f}'.format(x): x in hundredths, a tie rounded to the even digit.
Fmt2(x) ==
    LET n == 100 * x[1]
        q == n \div x[2]
        r == n % x[2]
    IN  IF 2 * r < x[2] THEN q
        ELSE IF 2 * r > x[2] THEN q + 1
        ELSE IF q % 2 = 0 THEN q ELSE q + 1

\* ---------------------------------------------------------------- train()
\* train(model, optimizer, loss_fn, train_loader, val_loader, epochs)
\* The locals a call starts with: nothing of an earlier call is in scope.
FreshLocals ==
    /\ it' = {}
    /\ inputs' = {}
    /\ sample_loss' = [x \in {} |-> 0]
    /\ loss' = None
    /\ dropout_active' = FALSE
    /\ training_loss' = Zero
    /\ valid_loss' = Zero
    /\ num_correct' = 0
    /\ num_examples' = 0
    /\ number_in_epoch' = 0
    /\ update_step' = 0
    /\ lr' = 0
    /\ best_loss' = Zero
    /\ batch_num' = 0
    /\ losses' = <<>>
    /\ log_lrs' = <<>>
    /\ epoch' = 0
    /\ printed' = None
    /\ returned' = None
    /\ error' = NoError

\* The history of a call that is over is dropped, except what a later
\* cell is compared with.
DroppedHistory ==
    [h EXCEPT !.ops = <<>>, !.batch_grad = None, !.seen = {},
              !.twice = FALSE, !.sizes = 0, !.batches = 0, !.epoch_sum = 0,
              !.epoch_steps = 0, !.epoch_backs = 0, !.exit_loss = None,
              !.step_lrs = <<>>, !.val_sum = 0, !.val_correct = 0,
              !.val_examples = 0]

FreshHistory ==
    [DroppedHistory EXCEPT !.entry_lr = None, !.early = FALSE,
                           !.return_lr = None, !.sweep_steps = 0]

TrainCall ==
    /\ cell = "ready" /\ pc = "idle" /\ Len(calls) < budget
    /\ \E e \in 1..max_epochs : epochs' = e
    /\ init_value' = 0
    /\ final_value' = 0
    /\ FreshLocals
    /\ h' = FreshHistory
    /\ calls' = Append(calls, "train")
    /\ pc' = "t_epoch"
    /\ UNCHANGED <<cell, modelVars, dataVars>>

\* model.train() left out: the mode stays what the last epoch left.
TrainModeKept(mode) == mode

\* for epoch in range(epochs): training_loss = 0.0; valid_loss = 0.0;
\* model.train(); for batch in train_loader
TrainModeAtEpoch(mode) == TRUE

\* The losses carried over from the epoch before.
LossKept(old) == old

\* training_loss = 0.0; valid_loss = 0.0
LossAtEpoch(old) == Zero

\* num_correct = 0; num_examples = 0
CountAtValidation(old) == 0

TrainEpochStart ==
    /\ pc = "t_epoch" /\ epoch < epochs
    /\ training_loss' = LossAtEpoch(training_loss)
    /\ valid_loss' = LossAtEpoch(valid_loss)
    /\ training' = TrainModeAtEpoch(training)
    /\ it' = Samples(train_n)
    /\ h' = [h EXCEPT !.seen = {}, !.twice = FALSE, !.sizes = 0,
                      !.batches = 0, !.epoch_sum = 0, !.epoch_steps = 0,
                      !.epoch_backs = 0, !.ops = <<>>, !.batch_grad = None,
                      !.val_sum = 0, !.val_correct = 0, !.val_examples = 0]
    /\ pc' = "t_next"
    /\ UNCHANGED <<cell, calls, params, requires_grad, grad, optimizer,
                   saved_file, dataVars, error, inputs, sample_loss, loss,
                   dropout_active, epochs, epoch, num_correct, num_examples,
                   printed, flVars>>

TrainReturn ==
    /\ pc = "t_epoch" /\ epoch = epochs
    /\ pc' = "idle"
    /\ UNCHANGED <<cell, calls, modelVars, dataVars, error, batchVars,
                   trainVars, flVars, h>>

TrainNextBatch ==
    /\ pc = "t_next" /\ it # {}
    /\ \E B \in NextBatches(it, batch_size, shuffle) :
         /\ inputs' = B
         /\ it' = it \ B
         /\ h' = [h EXCEPT !.ops = <<>>, !.batch_grad = None,
                           !.seen = @ \cup B,
                           !.twice = @ \/ (B \cap h.seen # {}),
                           !.sizes = @ + Cardinality(B),
                           !.batches = @ + 1]
    /\ pc' = "t_zero"
    /\ UNCHANGED <<cell, calls, modelVars, dataVars, error, sample_loss,
                   loss, dropout_active, trainVars, flVars>>

TrainZeroGrad ==
    /\ pc = "t_zero"
    /\ grad' = ZeroGrad(grad, optimizer)
    /\ h' = [h EXCEPT !.ops = Append(@, "zero_grad")]
    /\ pc' = "t_forward"
    /\ UNCHANGED <<cell, calls, params, requires_grad, training, optimizer,
                   saved_file, dataVars, error, batchVars, trainVars,
                   flVars>>

TrainForward ==
    /\ pc = "t_forward"
    /\ dropout_active' = DropoutApplies(training)
    /\ h' = [h EXCEPT !.ops = Append(@, "forward")]
    /\ pc' = "t_loss"
    /\ UNCHANGED <<cell, calls, modelVars, dataVars, error, it, inputs,
                   sample_loss, loss, trainVars, flVars>>

TrainLoss ==
    /\ pc = "t_loss"
    /\ \E sl \in [inputs -> SampleLossVals] :
         /\ sample_loss' = sl
         /\ loss' = MeanLoss(sl, inputs)
         /\ h' = [h EXCEPT !.ops = Append(@, "loss"),
                           !.epoch_sum = @ + SumOver(sl, inputs)]
    /\ pc' = "t_backward"
    /\ UNCHANGED <<cell, calls, modelVars, dataVars, error, it, inputs,
                   dropout_active, trainVars, flVars>>

TrainBackward ==
    /\ pc = "t_backward"
    /\ \E g \in grad_vals :
         /\ grad' = Backward(grad, requires_grad, g)
         /\ h' = [h EXCEPT !.ops = Append(@, "backward"),
                           !.batch_grad = Some(g),
                           !.epoch_backs = @ + 1]
    /\ pc' = "t_step"
    /\ UNCHANGED <<cell, calls, params, requires_grad, training, optimizer,
                   saved_file, dataVars, error, batchVars, trainVars,
                   flVars>>

TrainStep ==
    /\ pc = "t_step"
    /\ params' = StepParams(params, grad, optimizer)
    /\ h' = [h EXCEPT !.ops = Append(@, "step"),
                      !.epoch_steps = @ + 1,
                      !.moved = @ \cup Moved(params, params')]
    /\ pc' = "t_account"
    /\ UNCHANGED <<cell, calls, requires_grad, grad, training, optimizer,
                   saved_file, dataVars, error, batchVars, trainVars,
                   flVars>>

\* The batch loss weighted with batch_size instead of the size of the batch.
LossTermFullBatch(l, ins, b) == RMulInt(l, b)

\* training_loss += loss.data.item() * inputs.size(0)
LossTerm(l, ins, b) == RMulInt(l, Cardinality(ins))

TrainAccount ==
    /\ pc = "t_account"
    /\ training_loss' = RAdd(training_loss, LossTerm(loss, inputs, batch_size))
    /\ pc' = "t_next"
    /\ UNCHANGED <<cell, calls, modelVars, dataVars, error, batchVars,
                   epochs, epoch, valid_loss, num_correct, num_examples,
                   printed, flVars, h>>

\* training_loss /= len(train_loader.dataset); model.eval();
\* num_correct = 0; num_examples = 0; for batch in val_loader
TrainLoopEnd ==
    /\ pc = "t_next" /\ it = {}
    /\ IF DivisionFails(train_n)
       THEN /\ error' = "ZeroDivisionError"
            /\ pc' = "idle"
            /\ UNCHANGED <<training_loss, training, num_correct,
                           num_examples, it>>
       ELSE /\ training_loss' = RDivInt(training_loss, train_n)
            /\ training' = FALSE
            /\ num_correct' = CountAtValidation(num_correct)
            /\ num_examples' = CountAtValidation(num_examples)
            /\ it' = Samples(val_n)
            /\ pc' = "v_next"
            /\ UNCHANGED error
    /\ UNCHANGED <<cell, calls, params, requires_grad, grad, optimizer,
                   saved_file, dataVars, inputs, sample_loss, loss,
                   dropout_active, epochs, epoch, valid_loss, printed,
                   flVars, h>>

ValNextBatch ==
    /\ pc = "v_next" /\ it # {}
    /\ \E B \in NextBatches(it, batch_size, shuffle) :
         /\ inputs' = B
         /\ it' = it \ B
    /\ pc' = "v_forward"
    /\ UNCHANGED <<cell, calls, modelVars, dataVars, error, sample_loss,
                   loss, dropout_active, trainVars, flVars, h>>

ValForward ==
    /\ pc = "v_forward"
    /\ dropout_active' = DropoutApplies(training)
    /\ pc' = "v_loss"
    /\ UNCHANGED <<cell, calls, modelVars, dataVars, error, it, inputs,
                   sample_loss, loss, trainVars, flVars, h>>

ValLoss ==
    /\ pc = "v_loss"
    /\ \E sl \in [inputs -> SampleLossVals] :
         /\ sample_loss' = sl
         /\ loss' = MeanLoss(sl, inputs)
    /\ pc' = "v_account"
    /\ UNCHANGED <<cell, calls, modelVars, dataVars, error, it, inputs,
                   dropout_active, trainVars, flVars, h>>

\* valid_loss += ...; correct = eq(argmax, targets); num_correct += sum;
\* num_examples += correct.shape[0]
ValAccount ==
    /\ pc = "v_account"
    /\ valid_loss' = RAdd(valid_loss, RMulInt(loss, Cardinality(inputs)))
    /\ \E c \in 0..Cardinality(inputs) :
         /\ num_correct' = num_correct + c
         /\ h' = [h EXCEPT !.val_sum = @ + SumOver(sample_loss, inputs),
                           !.val_correct = @ + c,
                           !.val_examples = @ + Cardinality(inputs)]
    /\ num_examples' = num_examples + Cardinality(inputs)
    /\ pc' = "v_next"
    /\ UNCHANGED <<cell, calls, modelVars, dataVars, error, batchVars,
                   epochs, epoch, training_loss, printed, flVars>>

\* valid_loss /= len(val_loader.dataset)
ValLoopEnd ==
    /\ pc = "v_next" /\ it = {}
    /\ IF DivisionFails(val_n)
       THEN /\ error' = "ZeroDivisionError"
            /\ pc' = "idle"
            /\ UNCHANGED valid_loss
       ELSE /\ valid_loss' = RDivInt(valid_loss, val_n)
            /\ pc' = "t_print"
            /\ UNCHANGED error
    /\ UNCHANGED <<cell, calls, modelVars, dataVars, batchVars, epochs,
                   epoch, training_loss, num_correct, num_examples, printed,
                   flVars, h>>

\* print('Epoch: {}, Training Loss: {:.2f}, Validation Loss: {:.2f},
\* accuracy = {:.2f}'.format(epoch, ..., num_correct / num_examples))
TrainPrint ==
    /\ pc = "t_print"
    /\ IF DivisionFails(num_examples)
       THEN /\ error' = "ZeroDivisionError"
            /\ pc' = "idle"
            /\ UNCHANGED <<printed, epoch>>
       ELSE /\ printed' = Some(
                  [epoch |-> epoch,
                   training_loss |-> Fmt2(training_loss),
                   valid_loss |-> Fmt2(valid_loss),
                   accuracy |-> Fmt2(Norm(num_correct, num_examples))])
            /\ epoch' = epoch + 1
            /\ pc' = "t_epoch"
            /\ UNCHANGED error
    /\ UNCHANGED <<cell, calls, modelVars, dataVars, batchVars, epochs,
                   training_loss, valid_loss, num_correct, num_examples,
                   flVars, h>>

Setup == FreezeLoop \/ ReplaceFc \/ MakeOptimizer

TrainSteps ==
    \/ TrainCall \/ TrainEpochStart \/ TrainReturn \/ TrainNextBatch
    \/ TrainZeroGrad \/ TrainForward \/ TrainLoss \/ TrainBackward
    \/ TrainStep \/ TrainAccount \/ TrainLoopEnd \/ ValNextBatch
    \/ ValForward \/ ValLoss \/ ValAccount \/ ValLoopEnd \/ TrainPrint

\* train() alone, on richer loaders.
TrainConfigs ==
    [train_n : 1..MaxTrain, val_n : 0..MaxVal, batch_size : {MaxBatchSize},
     shuffle : {TRUE}, grads : {{-1, 1}}, max_epochs : {MaxEpochs},
     budget : {1}]

InitTrain == InitWith(TrainConfigs)
NextTrain == Setup \/ TrainSteps
SpecTrain == InitTrain /\ [][NextTrain]_vars

\* -------------------------------------------------------------- find_lr()
CrashFactor == 4     \* loss > 4 * best_loss
SliceOver == 20      \* len(log_lrs) > 20
SliceHead == 10      \* [10:-5]
SliceTail == 5

InitValues == {1, 2}

\* The integer ratios between two consecutive rates of a sweep of n batches
\* (the largest rate stays a machine integer).
Ratios(n) == IF n <= 4 THEN {1, 2, 3} ELSE {1, 2}

FinalValues(iv, n) == {iv * Pow(r, n - 1) : r \in Ratios(n)}

\* b ** e, not multiplied further once it has passed cap.
RECURSIVE PowUpTo(_, _, _)
PowUpTo(b, e, cap) ==
    IF e = 0 THEN 1
    ELSE LET r == PowUpTo(b, e - 1, cap) IN IF r > cap THEN r ELSE b * r

\* (final_value / init_value) ** (1 / number_in_epoch)
UpdateStep(fv, iv, m) ==
    LET q == fv \div iv
    IN  CHOOSE s \in 1..MaxRoot : PowUpTo(s, m, q) = q

\* Python's s[a:b] for a >= 0 and b < 0.
PySlice(s, a, b) ==
    LET start == IF a > Len(s) THEN Len(s) ELSE a
        stop == IF Len(s) + b < 0 THEN 0 ELSE Len(s) + b
    IN  IF stop <= start THEN <<>> ELSE SubSeq(s, start + 1, stop)

\* The slices taken from 20 entries on.
ResultFrom20(ls, lo) ==
    IF Len(ls) >= SliceOver
    THEN <<PySlice(ls, SliceHead, 0 - SliceTail),
           PySlice(lo, SliceHead, 0 - SliceTail)>>
    ELSE <<ls, lo>>

\* if len(log_lrs) > 20: return log_lrs[10:-5], losses[10:-5]
\* else: return log_lrs, losses
Result(ls, lo) ==
    IF Len(ls) > SliceOver
    THEN <<PySlice(ls, SliceHead, 0 - SliceTail),
           PySlice(lo, SliceHead, 0 - SliceTail)>>
    ELSE <<ls, lo>>

\* if batch_num > 1 and loss > 4 * best_loss
Explodes(bn, l, best) == bn > 1 /\ RLt(RMulInt(best, CrashFactor), l)

\* best_loss set by the first batch only.
BestLossFirst(bn, l, best) == IF bn = 1 THEN l ELSE best

\* if loss < best_loss or batch_num == 1: best_loss = loss
BestLoss(bn, l, best) == IF RLt(l, best) \/ bn = 1 THEN l ELSE best

\* (lrs, losses) = find_lr(model, loss_fn, optimizer, train_loader, iv, fv)
FindLrCall ==
    /\ cell = "ready" /\ pc = "idle" /\ Len(calls) < budget
    /\ \E iv \in InitValues :
         \E fv \in FinalValues(iv, LoaderLen(train_n, batch_size)) :
            /\ init_value' = iv
            /\ final_value' = fv
    /\ epochs' = 0
    /\ FreshLocals
    /\ h' = [FreshHistory EXCEPT !.entry_lr = Some(optimizer.lr)]
    /\ calls' = Append(calls, "find_lr")
    /\ pc' = "f_init"
    /\ UNCHANGED <<cell, modelVars, dataVars>>

\* number_in_epoch = len(train_loader) - 1; update_step = ...; lr =
\* init_value; optimizer.param_groups[0]["lr"] = lr; best_loss = 0.0;
\* batch_num = 0; losses = []; log_lrs = []; for data in train_loader
FindLrInit ==
    /\ pc = "f_init"
    /\ number_in_epoch' = LoaderLen(train_n, batch_size) - 1
    /\ IF DivisionFails(number_in_epoch')
       THEN /\ error' = "ZeroDivisionError"
            /\ pc' = "idle"
            /\ UNCHANGED <<update_step, lr, optimizer, it>>
       ELSE /\ update_step' =
                  UpdateStep(final_value, init_value, number_in_epoch')
            /\ lr' = init_value
            /\ optimizer' = [optimizer EXCEPT !.lr = init_value]
            /\ it' = Samples(train_n)
            /\ pc' = "f_next"
            /\ UNCHANGED error
    /\ best_loss' = Zero
    /\ batch_num' = 0
    /\ losses' = <<>>
    /\ log_lrs' = <<>>
    /\ UNCHANGED <<cell, calls, params, requires_grad, grad, training,
                   saved_file, dataVars, inputs, sample_loss, loss,
                   dropout_active, trainVars, init_value, final_value,
                   returned, h>>

FindLrNextBatch ==
    /\ pc = "f_next" /\ it # {}
    /\ batch_num' = batch_num + 1
    /\ \E B \in NextBatches(it, batch_size, shuffle) :
         /\ inputs' = B
         /\ it' = it \ B
    /\ h' = [h EXCEPT !.ops = <<>>, !.batch_grad = None, !.batches = @ + 1]
    /\ pc' = "f_zero"
    /\ UNCHANGED <<cell, calls, modelVars, dataVars, error, sample_loss,
                   loss, dropout_active, trainVars, init_value, final_value,
                   number_in_epoch, update_step, lr, best_loss, losses,
                   log_lrs, returned>>

FindLrZeroGrad ==
    /\ pc = "f_zero"
    /\ grad' = ZeroGrad(grad, optimizer)
    /\ h' = [h EXCEPT !.ops = Append(@, "zero_grad")]
    /\ pc' = "f_forward"
    /\ UNCHANGED <<cell, calls, params, requires_grad, training, optimizer,
                   saved_file, dataVars, error, batchVars, trainVars,
                   flVars>>

FindLrForward ==
    /\ pc = "f_forward"
    /\ dropout_active' = DropoutApplies(training)
    /\ h' = [h EXCEPT !.ops = Append(@, "forward")]
    /\ pc' = "f_loss"
    /\ UNCHANGED <<cell, calls, modelVars, dataVars, error, it, inputs,
                   sample_loss, loss, trainVars, flVars>>

FindLrLoss ==
    /\ pc = "f_loss"
    /\ \E sl \in [inputs -> SampleLossVals] :
         /\ sample_loss' = sl
         /\ loss' = MeanLoss(sl, inputs)
    /\ h' = [h EXCEPT !.ops = Append(@, "loss")]
    /\ pc' = "f_check"
    /\ UNCHANGED <<cell, calls, modelVars, dataVars, error, it, inputs,
                   dropout_active, trainVars, flVars>>

\* crash out if loss explodes
FindLrCrashOut ==
    /\ pc = "f_check"
    /\ Explodes(batch_num, loss, best_loss)
    /\ returned' = Some(Result(log_lrs, losses))
    /\ h' = [h EXCEPT !.early = TRUE, !.exit_loss = loss,
                      !.return_lr = Some(optimizer.lr)]
    /\ pc' = "idle"
    /\ UNCHANGED <<cell, calls, modelVars, dataVars, error, batchVars,
                   trainVars, init_value, final_value, number_in_epoch,
                   update_step, lr, best_loss, batch_num, losses, log_lrs>>

\* record the best loss
FindLrRecordBest ==
    /\ pc = "f_check"
    /\ ~Explodes(batch_num, loss, best_loss)
    /\ best_loss' = BestLoss(batch_num, loss, best_loss)
    /\ pc' = "f_store"
    /\ UNCHANGED <<cell, calls, modelVars, dataVars, error, batchVars,
                   trainVars, init_value, final_value, number_in_epoch,
                   update_step, lr, batch_num, losses, log_lrs, returned, h>>

\* store the values
FindLrStore ==
    /\ pc = "f_store"
    /\ losses' = Append(losses, loss)
    /\ log_lrs' = Append(log_lrs, lr)
    /\ pc' = "f_backward"
    /\ UNCHANGED <<cell, calls, modelVars, dataVars, error, batchVars,
                   trainVars, init_value, final_value, number_in_epoch,
                   update_step, lr, best_loss, batch_num, returned, h>>

\* backward pass and optimization
FindLrBackward ==
    /\ pc = "f_backward"
    /\ \E g \in grad_vals :
         /\ grad' = Backward(grad, requires_grad, g)
         /\ h' = [h EXCEPT !.ops = Append(@, "backward"),
                           !.batch_grad = Some(g),
                           !.epoch_backs = @ + 1]
    /\ pc' = "f_step"
    /\ UNCHANGED <<cell, calls, params, requires_grad, training, optimizer,
                   saved_file, dataVars, error, batchVars, trainVars,
                   flVars>>

FindLrStep ==
    /\ pc = "f_step"
    /\ params' = StepParams(params, grad, optimizer)
    /\ h' = [h EXCEPT !.ops = Append(@, "step"),
                      !.epoch_steps = @ + 1,
                      !.sweep_steps = @ + 1,
                      !.step_lrs = Append(@, optimizer.lr),
                      !.moved = @ \cup Moved(params, params')]
    /\ pc' = "f_lr"
    /\ UNCHANGED <<cell, calls, requires_grad, grad, training, optimizer,
                   saved_file, dataVars, error, batchVars, trainVars,
                   flVars>>

\* The rate raised by addition, and the rate left as it is.
NextLrAdded(l, us) == l + us
NextLrSame(l, us) == l

\* lr *= update_step; optimizer.param_groups[0]["lr"] = lr
NextLr(l, us) == l * us

FindLrUpdateLr ==
    /\ pc = "f_lr"
    /\ lr' = NextLr(lr, update_step)
    /\ optimizer' = [optimizer EXCEPT !.lr = lr']
    /\ pc' = "f_next"
    /\ UNCHANGED <<cell, calls, params, requires_grad, grad, training,
                   saved_file, dataVars, error, batchVars, trainVars,
                   init_value, final_value, number_in_epoch, update_step,
                   best_loss, batch_num, losses, log_lrs, returned, h>>

\* the return after the loop
FindLrEnd ==
    /\ pc = "f_next" /\ it = {}
    /\ returned' = Some(Result(log_lrs, losses))
    /\ h' = [h EXCEPT !.return_lr = Some(optimizer.lr)]
    /\ pc' = "idle"
    /\ UNCHANGED <<cell, calls, modelVars, dataVars, error, batchVars,
                   trainVars, init_value, final_value, number_in_epoch,
                   update_step, lr, best_loss, batch_num, losses, log_lrs>>

FindLrSteps ==
    \/ FindLrCall \/ FindLrInit \/ FindLrNextBatch \/ FindLrZeroGrad
    \/ FindLrForward \/ FindLrLoss \/ FindLrCrashOut \/ FindLrRecordBest
    \/ FindLrStore \/ FindLrBackward \/ FindLrStep \/ FindLrUpdateLr
    \/ FindLrEnd

\* One sweep over a long loader that delivers the batches in order.
SweepConfigs ==
    [train_n : 1..MaxBatches, val_n : {0}, batch_size : {1},
     shuffle : {FALSE}, grads : {{1}}, max_epochs : {1}, budget : {1}]

InitFindLr == InitWith(SweepConfigs)
NextFindLr == Setup \/ FindLrSteps
SpecFindLr == InitFindLr /\ [][NextFindLr]_vars

\* ------------------------------------------------- save and load the model
\* torch.save(transfer_model.state_dict(), path): the file holds a copy of
\* every parameter.
StateDict(p) == p

SaveStateDict ==
    /\ cell = "ready" /\ pc = "idle" /\ Len(calls) < budget
    /\ saved_file' = Some(StateDict(params))
    /\ h' = [DroppedHistory EXCEPT !.at_save = Some(params)]
    /\ calls' = Append(calls, "save")
    /\ epochs' = 0
    /\ init_value' = 0
    /\ final_value' = 0
    /\ FreshLocals
    /\ UNCHANGED <<cell, params, requires_grad, grad, training, optimizer,
                   dataVars, pc>>

\* A load that matches no key and leaves the model as it is.
LoadNothing(p, sd) == p

\* transfer_model.load_state_dict(torch.load(path)): every parameter takes
\* the value the file holds under its name.
LoadStateDict(p, sd) == [n \in DOMAIN p |-> sd[n]]

LoadSavedStateDict ==
    /\ cell = "ready" /\ pc = "idle" /\ Len(calls) < budget
    /\ saved_file # None
    /\ params' = LoadStateDict(params, saved_file[1])
    /\ calls' = Append(calls, "load")
    /\ h' = DroppedHistory
    /\ epochs' = 0
    /\ init_value' = 0
    /\ final_value' = 0
    /\ FreshLocals
    /\ UNCHANGED <<cell, requires_grad, grad, training, optimizer,
                   saved_file, dataVars, pc>>

Next ==
    \/ Setup \/ TrainSteps \/ FindLrSteps
    \/ SaveStateDict \/ LoadSavedStateDict

Spec == Init /\ [][Next]_vars

\* ------------------------------------------ CIFAR-10: the validation split
\* validation_size = 0.2, as the fraction it stands for.  The product
\* training_size * 0.2 is a double; its floor is the floor of the exact
\* product for every size a dataset can have.
ValidationSize == <<1, 5>>

\* The cut rounded up.
IndexSplitCeil(n) ==
    (n * ValidationSize[1] + ValidationSize[2] - 1) \div ValidationSize[2]

\* index_split = int(np.floor(training_size * validation_size))
IndexSplit(n) == (n * ValidationSize[1]) \div ValidationSize[2]

\* The lists np.random.shuffle can leave in list(range(n)).
Shuffles(n) ==
    {p \in [1..n -> 0..(n - 1)] :
        \A i, j \in 1..n : i # j => p[i] # p[j]}

Elements(list) == {list[i] : i \in 1..Len(list)}

\* The training part not cut: the whole list.
TrainingPartWhole(ix, k) == ix

\* indices[:index_split] and indices[index_split:]
ValidationPart(ix, k) == SubSeq(ix, 1, k)
TrainingPart(ix, k) == SubSeq(ix, k + 1, Len(ix))

\* indices = list(range(training_size)); np.random.shuffle(indices)
ShuffleIndices ==
    /\ cell = "shuffle"
    /\ indices' \in Shuffles(train_n)
    /\ cell' = "split"
    /\ UNCHANGED <<calls, modelVars, configVars, index_split,
                   validation_indices, training_indices, training_sample,
                   validation_sample, loader, noiseVars, pc, error,
                   batchVars, trainVars, flVars, h>>

SplitIndices ==
    /\ cell = "split"
    /\ index_split' = IndexSplit(train_n)
    /\ validation_indices' = ValidationPart(indices, index_split')
    /\ training_indices' = TrainingPart(indices, index_split')
    /\ cell' = "samplers"
    /\ UNCHANGED <<calls, modelVars, configVars, indices, training_sample,
                   validation_sample, loader, noiseVars, pc, error,
                   batchVars, trainVars, flVars, h>>

\* training_sample = SubsetRandomSampler(training_indices);
\* validation_sample = SubsetRandomSampler(validation_indices);
\* the three DataLoaders over train_data
MakeLoaders ==
    /\ cell = "samplers"
    /\ training_sample' = Some(training_indices)
    /\ validation_sample' = Some(validation_indices)
    /\ cell' = "loaders"
    /\ UNCHANGED <<calls, modelVars, configVars, indices, index_split,
                   validation_indices, training_indices, loader, noiseVars,
                   pc, error, batchVars, trainVars, flVars, h>>

LoaderNames == {"train_loader", "valid_loader", "test_loader"}

\* The indices one pass over the loader draws from: those of its sampler,
\* or the whole of train_data when it has none.
LoaderIndices(name) ==
    CASE name = "train_loader" -> Elements(training_sample[1])
      [] name = "valid_loader" -> Elements(validation_sample[1])
      [] name = "test_loader" -> 0..(train_n - 1)

\* A SubsetRandomSampler yields its indices in a random order; a loader
\* without a sampler and without shuffle yields them in order.
LoaderShuffles(name) == name # "test_loader"

\* for batch in <loader>
LoaderIter ==
    /\ cell = "loaders" /\ pc = "idle" /\ Len(calls) < budget
    /\ \E name \in LoaderNames :
         /\ loader' = Some(name)
         /\ it' = LoaderIndices(name)
         /\ calls' = Append(calls, name)
    /\ inputs' = {}
    /\ h' = [h EXCEPT !.delivered = {}, !.twice = FALSE]
    /\ pc' = "l_next"
    /\ UNCHANGED <<cell, modelVars, configVars, indices, index_split,
                   validation_indices, training_indices, training_sample,
                   validation_sample, noiseVars, error, sample_loss, loss,
                   dropout_active, trainVars, flVars>>

LoaderNextBatch ==
    /\ pc = "l_next" /\ it # {}
    /\ \E B \in NextBatches(it, batch_size, LoaderShuffles(loader[1])) :
         /\ inputs' = B
         /\ it' = it \ B
         /\ h' = [h EXCEPT !.delivered = @ \cup B,
                           !.twice = @ \/ (B \cap h.delivered # {})]
    /\ UNCHANGED <<cell, calls, modelVars, dataVars, pc, error, sample_loss,
                   loss, dropout_active, trainVars, flVars>>

LoaderEnd ==
    /\ pc = "l_next" /\ it = {}
    /\ pc' = "idle"
    /\ UNCHANGED <<cell, calls, modelVars, dataVars, error, batchVars,
                   trainVars, flVars, h>>

\* Datasets of every size up to MaxData, each loader iterated.
SplitConfigs ==
    [train_n : 0..MaxData, val_n : {0}, batch_size : {MaxBatchSize},
     shuffle : {TRUE}, grads : {{1}}, max_epochs : {1}, budget : {2}]

InitSplit == InitAt(SplitConfigs, "shuffle")

NextSplit ==
    \/ ShuffleIndices \/ SplitIndices \/ MakeLoaders
    \/ LoaderIter \/ LoaderNextBatch \/ LoaderEnd

SpecSplit == InitSplit /\ [][NextSplit]_vars

\* --------------------------------------------------- custom transforms
\* What flows through a pipeline: a PIL image or a tensor, here the flat
\* list of its elements; shape is the length of the list.
PixelVals == {0, 1}
NoiseVals == {-1, 0, 1}    \* the values normal_(mean, stddev) can draw

Datas == UNION {[1..n -> PixelVals] : n \in 1..MaxPixels}

Images == [kind : {"image"}, mode : {"RGB"}, data : Datas]

\* transforms.ToTensor(): the image as a tensor of the same elements.
ToTensor(x) == [kind |-> "tensor", mode |-> "none", data |-> x.data]

\* _random_color_space(x): x.convert("HSV"), an image of the same size in
\* the other colour space.
Converted(x) ==
    {[kind |-> "image", mode |-> "HSV", data |-> d] :
        d \in [1..Len(x.data) -> PixelVals]}

\* torchvision.transforms.RandomApply([color_transform]): applied or not.
RandomColor(x) == {x} \cup Converted(x)

\* noise = torch.zeros_like(tensor).normal_(self.mean, self.stddev)
NoiseDraws(t) == [1..Len(t.data) -> NoiseVals]

\* Noise.__call__(tensor): the method ends after drawing the noise; a call
\* that runs off the end of its body gives None.
NoiseCall(t, nz) == None

\* The example of the docstring and the pipeline the notebook builds.
ExamplePipeline == <<"ToTensor", "Noise">>
custom_transform_pipeline == <<"random_color_transform", "Noise">>
Pipelines == {ExamplePipeline, custom_transform_pipeline}

\* Compose.__call__(img): for t in self.transforms: img = t(img)
ComposeCall ==
    /\ cell = "transforms" /\ pc = "idle" /\ Len(calls) < budget
    /\ \E pl \in Pipelines : todo' = pl
    /\ \E x \in Images : img' = Some(x)
    /\ tensor' = None
    /\ noise' = None
    /\ error' = NoError
    /\ calls' = Append(calls, "compose")
    /\ pc' = "c_loop"
    /\ UNCHANGED <<cell, modelVars, configVars, splitVars, batchVars,
                   trainVars, flVars, h>>

ApplyToTensor ==
    /\ pc = "c_loop" /\ todo # <<>> /\ Head(todo) = "ToTensor"
    /\ img' = Some(ToTensor(img[1]))
    /\ todo' = Tail(todo)
    /\ UNCHANGED <<cell, calls, modelVars, configVars, splitVars, tensor,
                   noise, pc, error, batchVars, trainVars, flVars, h>>

ApplyRandomColor ==
    /\ pc = "c_loop" /\ todo # <<>>
    /\ Head(todo) = "random_color_transform"
    /\ \E y \in RandomColor(img[1]) : img' = Some(y)
    /\ todo' = Tail(todo)
    /\ UNCHANGED <<cell, calls, modelVars, configVars, splitVars, tensor,
                   noise, pc, error, batchVars, trainVars, flVars, h>>

\* zeros_like accepts a tensor only: on an image the call raises TypeError.
ApplyNoise ==
    /\ pc = "c_loop" /\ todo # <<>> /\ Head(todo) = "Noise"
    /\ IF img[1].kind = "tensor"
       THEN /\ tensor' = img
            /\ \E nz \in NoiseDraws(img[1]) :
                 /\ noise' = Some(nz)
                 /\ img' = NoiseCall(img[1], nz)
            /\ todo' = Tail(todo)
            /\ UNCHANGED <<pc, error>>
       ELSE /\ error' = "TypeError"
            /\ pc' = "idle"
            /\ UNCHANGED <<tensor, noise, img, todo>>
    /\ UNCHANGED <<cell, calls, modelVars, configVars, splitVars,
                   batchVars, trainVars, flVars, h>>

\* return img
ComposeReturn ==
    /\ pc = "c_loop" /\ todo = <<>>
    /\ pc' = "idle"
    /\ UNCHANGED <<cell, calls, modelVars, dataVars, error, batchVars,
                   trainVars, flVars, h>>

NoiseConfigs ==
    [train_n : {1}, val_n : {0}, batch_size : {1}, shuffle : {FALSE},
     grads : {{1}}, max_epochs : {1}, budget : {1}]

InitNoise == InitAt(NoiseConfigs, "transforms")

NextNoise ==
    \/ ComposeCall \/ ApplyToTensor \/ ApplyRandomColor \/ ApplyNoise
    \/ ComposeReturn

SpecNoise == InitNoise /\ [][NextNoise]_vars

\* ============================================================ properties
BatchOrder == <<"zero_grad", "forward", "loss", "backward", "step">>

IsPrefix(s, t) == Len(s) <= Len(t) /\ s = SubSeq(t, 1, Len(s))

TrainBatchPcs ==
    {"t_zero", "t_forward", "t_loss", "t_backward", "t_step", "t_account"}
ValBatchPcs == {"v_forward", "v_loss", "v_account"}
SweepBatchPcs ==
    {"f_zero", "f_forward", "f_loss", "f_check", "f_store", "f_backward",
     "f_step", "f_lr"}

LastCalls(k) == SubSeq(calls, Len(calls) - k + 1, Len(calls))

\* C1: in train() every training batch goes through zero_grad, forward,
\* loss, backward and step in this order; the steps of an epoch never
\* outnumber its backward passes and a finished batch has had exactly one
\* of each; the gradient a step uses is the gradient of that batch alone.
C1_TrainBatchOrder ==
    pc \in TrainBatchPcs =>
        /\ IsPrefix(h.ops, BatchOrder)
        /\ h.epoch_steps <= h.epoch_backs
        /\ pc = "t_step" =>
              /\ h.epoch_backs = h.batches
              /\ h.epoch_steps = h.batches - 1
              /\ \A n \in DOMAIN grad :
                    requires_grad[n] => grad[n] = h.batch_grad
        /\ pc = "t_account" =>
              /\ h.ops = BatchOrder
              /\ h.epoch_steps = h.batches
              /\ h.epoch_backs = h.batches

\* A second batch of an epoch has been stepped: an earlier gradient existed.
C1_Witness ==
    /\ pc = "t_account"
    /\ h.batches >= 2
    /\ h.ops = BatchOrder

\* C2: once the training batches of an epoch are done, training_loss is the
\* sum of the per-sample losses of that epoch divided by the size of the
\* dataset, every sample was delivered exactly once and the batch sizes sum
\* to the size of the dataset; the line printed for the epoch shows it.
C2_TrainingLossIsSampleMean ==
    /\ pc \in ValBatchPcs \cup {"v_next", "t_print"} =>
          /\ training_loss = Norm(h.epoch_sum, train_n)
          /\ h.seen = Samples(train_n)
          /\ ~h.twice
          /\ h.sizes = train_n
    /\ (pc = "t_epoch" /\ printed # None) =>
          /\ printed[1].epoch = epoch - 1
          /\ printed[1].training_loss = Fmt2(Norm(h.epoch_sum, train_n))

\* An epoch whose last batch was smaller than batch_size is being reported.
C2_Witness ==
    /\ pc = "t_print"
    /\ batch_size > 1
    /\ train_n % batch_size # 0
    /\ train_n > batch_size

\* C3: the model is in training mode during every training batch and in
\* evaluation mode during every validation batch, in every epoch; a forward
\* pass drops activations in the former and never in the latter.
C3_ModeMatchesPhase ==
    /\ pc \in TrainBatchPcs => training
    /\ pc \in {"t_loss", "t_backward", "t_step", "t_account"} =>
          dropout_active
    /\ pc \in ValBatchPcs => ~training
    /\ pc \in {"v_loss", "v_account"} => ~dropout_active

\* A training batch of the second epoch, after a validation pass.
C3_Witness ==
    /\ pc = "t_account"
    /\ epoch = 1
    /\ dropout_active

C5_ReloadRestores ==
    (pc = "idle" /\ Len(calls) >= 3
       /\ LastCalls(3) = <<"save", "find_lr", "load">>) =>
        /\ h.at_save # None
        /\ params = h.at_save[1]

\* The sweep in between crashed out after it had moved the model.
C5_Witness ==
    /\ pc = "idle" /\ Len(calls) >= 3
    /\ LastCalls(3) = <<"save", "find_lr", "load">>
    /\ h.early
    /\ h.sweep_steps >= 1
    /\ h.moved # {}

RECURSIVE MinLoss(_, _)
\* The smallest of the first k entries of a list of losses (k >= 1).
MinLoss(s, k) ==
    IF k = 1 THEN s[1]
    ELSE LET m == MinLoss(s, k - 1) IN IF RLt(s[k], m) THEN s[k] ELSE m

\* C7: find_lr returns the recorded rates and losses without their first 10
\* and last 5 entries when more than 20 were recorded and whole otherwise,
\* on both returns; the two lists have the same length and are not empty
\* when a batch was recorded.
C7_ReturnedSlices ==
    returned # None =>
        LET n == Len(log_lrs)
            r == returned[1]
        IN  /\ Len(losses) = n
            /\ n > 20 => /\ r[1] = [i \in 1..(n - 15) |-> log_lrs[i + 10]]
                         /\ r[2] = [i \in 1..(n - 15) |-> losses[i + 10]]
            /\ n <= 20 => r[1] = log_lrs /\ r[2] = losses
            /\ Len(r[1]) = Len(r[2])
            /\ n >= 1 => Len(r[1]) >= 1

\* A sweep crashed out with more than 20 batches recorded.
C7_Witness ==
    /\ returned # None
    /\ h.early
    /\ Len(log_lrs) > 20
    /\ Len(returned[1][1]) = Len(log_lrs) - 15

\* C8: find_lr returns early exactly at the first batch k > 1 whose loss
\* exceeds 4 times the smallest loss before it: no recorded batch did, the
\* batch that did is neither recorded nor trained on, so k-1 batches were
\* recorded, passed backward and stepped.
C8_CrashOut ==
    /\ pc \in SweepBatchPcs \cup {"f_next"} \/ returned # None =>
          \A k \in 2..Len(losses) :
              ~RLt(RMulInt(MinLoss(losses, k - 1), 4), losses[k])
    /\ pc \in {"f_store"} /\ batch_num > 1 =>
          ~RLt(RMulInt(MinLoss(losses, batch_num - 1), 4), loss)
    /\ (returned # None /\ h.early) =>
          /\ batch_num > 1
          /\ RLt(RMulInt(MinLoss(losses, batch_num - 1), 4), loss)
          /\ Len(losses) = batch_num - 1
          /\ Len(log_lrs) = batch_num - 1
          /\ h.epoch_backs = batch_num - 1
          /\ h.epoch_steps = batch_num - 1
    /\ (returned # None /\ ~h.early) =>
          /\ Len(losses) = batch_num
          /\ batch_num = LoaderLen(train_n, batch_size)

\* A sweep crashed out on a loss that the first batch's loss would have let
\* pass: the smallest loss came later.
C8_Witness ==
    /\ returned # None
    /\ h.early
    /\ Len(losses) >= 2
    /\ ~RLt(RMulInt(losses[1], 4), loss)

\* C9: after the freezing loop and the replacement of fc, a parameter is
\* trainable iff it belongs to a BatchNorm layer or to the new classifier.
C9_TrainableIffBatchNormOrNewFc ==
    cell \in {"optimizer", "ready"} =>
        \A n \in DOMAIN params :
            requires_grad[n] <=>
                (LayerKind(n) = "BatchNorm2d" \/ n \in NewFcNames)

\* C10: through train() and find_lr, a frozen parameter keeps its
\* pretrained value although the optimizer holds every parameter; only
\* trainable parameters are ever moved by a step.
C10_FrozenKeepPretrained ==
    cell = "ready" =>
        /\ optimizer.params = DOMAIN params
        /\ \A n \in DOMAIN params :
              ~requires_grad[n] => params[n] = PretrainedValue(n)
        /\ h.moved \subseteq {n \in DOMAIN params : requires_grad[n]}

\* Both functions have run and steps have moved the trainable parameters
\* while frozen ones were in the optimizer.
C10_Witness ==
    /\ pc = "idle"
    /\ \E i \in 1..Len(calls) : calls[i] = "train"
    /\ \E i \in 1..Len(calls) : calls[i] = "find_lr"
    /\ h.sweep_steps >= 1
    /\ h.moved # {}
    /\ \E n \in optimizer.params : ~requires_grad[n]

\* C11: in the CIFAR-10 notebook, for a training set of N samples the
\* validation and the training indices are disjoint, hold every index of
\* 0..N-1 exactly once between them, and the validation indices are
\* floor(0.2 * N) many; train_loader delivers training indices only and
\* valid_loader validation indices only.
C11_ValidationSplit ==
    LET V == Elements(validation_indices)
        T == Elements(training_indices)
        k == Len(validation_indices)
    IN  /\ cell \in {"samplers", "loaders"} =>
              /\ V \cap T = {}
              /\ V \cup T = 0..(train_n - 1)
              /\ Cardinality(V) = k
              /\ Cardinality(T) = Len(training_indices)
              /\ k + Len(training_indices) = train_n
              /\ 5 * k <= train_n /\ train_n < 5 * (k + 1)
        /\ loader = Some("train_loader") =>
              /\ h.delivered \subseteq T
              /\ inputs \subseteq T
        /\ loader = Some("valid_loader") =>
              /\ h.delivered \subseteq V
              /\ inputs \subseteq V

\* Both loaders have been run through over a split with a validation part.
C11_Witness ==
    /\ pc = "idle"
    /\ calls = <<"train_loader", "valid_loader">>
    /\ validation_indices # <<>>
    /\ h.delivered = Elements(validation_indices)
    /\ Len(training_indices) > batch_size

\* C12: Noise applied to a tensor returns a tensor of the same shape, equal
\* to the input plus the noise drawn, so that a transform can follow it.
C12_NoiseReturnsNoisyTensor ==
    (tensor # None /\ noise # None) =>
        /\ img # None
        /\ img[1].kind = "tensor"
        /\ Len(img[1].data) = Len(tensor[1].data)
        /\ \A i \in 1..Len(tensor[1].data) :
              img[1].data[i] = tensor[1].data[i] + noise[1][i]

\* C13: the four accumulators start from zero in every epoch: while an
\* epoch runs they hold the sums over the batches of that epoch alone, and
\* the line printed for the epoch is made of those sums only.
C13_MetricsOfThisEpochOnly ==
    /\ pc = "t_next" => training_loss = <<h.epoch_sum, 1>>
    /\ pc \in {"v_next", "v_forward", "v_loss", "v_account"} =>
          /\ valid_loss = <<h.val_sum, 1>>
          /\ num_correct = h.val_correct
          /\ num_examples = h.val_examples
    /\ pc = "t_print" =>
          /\ training_loss = Norm(h.epoch_sum, train_n)
          /\ valid_loss = Norm(h.val_sum, val_n)
          /\ num_correct = h.val_correct
          /\ num_examples = h.val_examples
          /\ num_examples = val_n
    /\ (pc = "t_epoch" /\ printed # None) =>
          printed[1] =
              [epoch |-> epoch - 1,
               training_loss |-> Fmt2(Norm(h.epoch_sum, train_n)),
               valid_loss |-> Fmt2(Norm(h.val_sum, val_n)),
               accuracy |-> Fmt2(Norm(h.val_correct, h.val_examples))]

\* The second epoch is about to be reported after a first epoch whose
\* metrics were not zero.
C13_Witness ==
    /\ pc = "t_print"
    /\ epoch = 1
    /\ printed # None
    /\ printed[1].epoch = 0
    /\ printed[1].training_loss > 0
    /\ printed[1].valid_loss > 0
    /\ printed[1].accuracy > 0

\* C14: find_lr over a loader of exactly one batch raises
\* ZeroDivisionError while it computes update_step (number_in_epoch is 0):
\* that step leaves the optimizer and the model untouched, no batch is
\* drawn, passed backward or stepped, nothing is returned and the
\* optimizer's learning rate is the one it had on entry.  No other loader
\* makes find_lr fail.
C14_OneBatchSweepFails ==
    /\ [](  /\ (calls # <<>> /\ LastCalls(1) = <<"find_lr">>
                  /\ LoaderLen(train_n, batch_size) = 1 /\ pc # "f_init") =>
                  /\ pc = "idle"
                  /\ error = "ZeroDivisionError"
                  /\ number_in_epoch = 0
                  /\ h.entry_lr = Some(optimizer.lr)
                  /\ h.batches = 0
                  /\ h.epoch_backs = 0
                  /\ h.epoch_steps = 0
                  /\ h.sweep_steps = 0
                  /\ returned = None
            /\ (calls # <<>> /\ LastCalls(1) = <<"find_lr">>
                  /\ error # NoError) =>
                  LoaderLen(train_n, batch_size) = 1)
    /\ [][(pc = "f_init" /\ LoaderLen(train_n, batch_size) = 1) =>
              /\ error' = "ZeroDivisionError"
              /\ UNCHANGED <<params, requires_grad, grad, training,
                             optimizer, saved_file>>]_vars

\* The sweep failed on a one-batch loader after train() had moved the model.
C14_Witness ==
    /\ pc = "idle"
    /\ error = "ZeroDivisionError"
    /\ Len(calls) >= 2
    /\ LastCalls(2) = <<"train", "find_lr">>
    /\ LoaderLen(train_n, batch_size) = 1
    /\ h.moved # {}
    /\ optimizer.lr = AdamLr

\* C15: train() with a validation loader over an empty dataset raises
\* ZeroDivisionError at the end of its first epoch: every training batch of
\* that epoch has been stepped and has moved the model, no validation batch
\* runs, no line is printed, no further epoch starts, and the failing step
\* leaves the parameters as the last optimizer step left them.  With a
\* validation sample train() does not fail.
C15_EmptyValidationFails ==
    /\ [](  /\ (val_n = 0 /\ calls # <<>> /\ LastCalls(1) = <<"train">>) =>
                  /\ epoch = 0
                  /\ printed = None
                  /\ pc \notin ValBatchPcs \cup {"t_print"}
                  /\ pc = "idle" =>
                        /\ error = "ZeroDivisionError"
                        /\ h.batches = LoaderLen(train_n, batch_size)
                        /\ h.epoch_steps = h.batches
                        /\ h.seen = Samples(train_n)
                        /\ h.moved # {}
            /\ (calls # <<>> /\ LastCalls(1) = <<"train">>
                  /\ error # NoError) => val_n = 0)
    /\ [][(pc = "v_next" /\ val_n = 0) =>
              /\ error' = "ZeroDivisionError"
              /\ pc' = "idle"
              /\ UNCHANGED <<params, grad, optimizer, epoch, printed>>]_vars

\* A call for two epochs failed after the two batches of its first epoch.
C15_Witness ==
    /\ pc = "idle"
    /\ error = "ZeroDivisionError"
    /\ val_n = 0
    /\ epochs = 2
    /\ h.epoch_steps = 2
    /\ h.moved # {}

====
